---- MODULE Spec2Model ----
(***************************************************************************)
(* Model of analyze_results.py: the wrk report parser (parse_wrk_output),  *)
(* the metrics CSV parser (parse_metrics_csv), and the batch selection,    *)
(* parse loop, sort and consumers of main().                               *)
(*                                                                         *)
(* Floats are modelled as exact rationals [n, d] in lowest terms, strings  *)
(* as sequences of one-character strings.                                  *)
(***************************************************************************)
EXTENDS Integers, Sequences, FiniteSets, TLC

\* a single call of parse_wrk_output: its file and what the call gave
VARIABLES filepath, result

\* a run of main()
VARIABLES argv, disk, pc, result_files, latest_timestamp, idx, results,
          parsed, consumed, exit_status

parseVars == <<filepath, result>>
mainVars == <<argv, disk, pc, result_files, latest_timestamp, idx, results,
              parsed, consumed, exit_status>>
vars == <<filepath, result, argv, disk, pc, result_files, latest_timestamp, idx,
          results, parsed, consumed, exit_status>>

(***************************************************************************)
(* Bounds of the model.                                                    *)
(***************************************************************************)
MaxSegs == 2
MaxRows == 3
MaxFiles == 3

(***************************************************************************)
(* Numbers.                                                                *)
(***************************************************************************)
Abs(x) == IF x < 0 THEN -x ELSE x

RECURSIVE Gcd(_, _)
Gcd(a, b) == IF b = 0 THEN a ELSE Gcd(b, a % b)

\* a float, as the rational n/d in lowest terms (d > 0)
Rat(n, d) ==
    LET g == Gcd(Abs(n), d)
    IN  [n |-> n \div g, d |-> d \div g]

RatMul(r, k) == Rat(r.n * k, r.d)
RatDiv(r, k) == Rat(r.n, r.d * k)
RatSub(a, b) == Rat(a.n * b.d - b.n * a.d, a.d * b.d)

\* int(value) of a non-negative float: truncation toward zero
IntOf(r) == r.n \div r.d

\* the numeric default of BenchmarkResult.__init__ (0 == 0.0 in Python)
Zero == [n |-> 0, d |-> 1]

(***************************************************************************)
(* float(s) of a string: a run of decimal digits with at most one '.' and  *)
(* at least one digit is a number; None (a missing CSV field) and every    *)
(* other string over the model's characters raise.                         *)
(***************************************************************************)
Digits == {"0", "1", "2", "3", "4", "5", "6", "7", "8", "9"}

DigitVal(c) ==
    CASE c = "0" -> 0 [] c = "1" -> 1 [] c = "2" -> 2 [] c = "3" -> 3
      [] c = "4" -> 4 [] c = "5" -> 5 [] c = "6" -> 6 [] c = "7" -> 7
      [] c = "8" -> 8 [] c = "9" -> 9

\* a CSV field the row does not have (DictReader gives None, or the key is absent)
None == <<"None">>

RECURSIVE DecimalOf(_, _, _, _, _)
\* reads s from position i on: acc is the digits read so far as an integer,
\* den is 10 to the number of digits read after the '.'
DecimalOf(s, i, acc, den, dot) ==
    IF i > Len(s) THEN Rat(acc, den)
    ELSE IF s[i] = "." THEN DecimalOf(s, i + 1, acc, den, TRUE)
    ELSE DecimalOf(s, i + 1, acc * 10 + DigitVal(s[i]),
                   IF dot THEN den * 10 ELSE den, dot)

FloatOk(s) ==
    /\ s # None
    /\ Len(s) > 0
    /\ \A i \in 1..Len(s) : s[i] \in Digits \cup {"."}
    /\ Cardinality({i \in 1..Len(s) : s[i] = "."}) <= 1
    /\ \E i \in 1..Len(s) : s[i] \in Digits

\* the value of float(s), for a string with FloatOk(s)
Float(s) == DecimalOf(s, 1, 0, 1, FALSE)

(***************************************************************************)
(* parse_metrics_csv.  A metrics file is [exists, rows]; a row is the      *)
(* DictReader row [timestamp, cpu_percent, memory_mb], each field a string *)
(* or None.  The three lists are appended to one field at a time, and an   *)
(* exception leaves the loop with the lists as they are at that point.     *)
(***************************************************************************)
\* faulty variant: the absolute timestamp is kept
RelativeTime_absolute(timestamp, start_time) == timestamp

\* Relative time in seconds
RelativeTime(timestamp, start_time) == RatSub(timestamp, start_time)

NoSeries == [timestamps |-> <<>>, cpu_values |-> <<>>, memory_values |-> <<>>]

RECURSIVE ReadRows(_, _, _, _)
\* start_time is <<>> for None and <<t>> once the first timestamp is read
ReadRows(rows, i, start_time, acc) ==
    IF i > Len(rows) THEN acc
    ELSE IF ~FloatOk(rows[i].timestamp) THEN acc
    ELSE
      LET timestamp == Float(rows[i].timestamp)
          start == IF start_time = <<>> THEN timestamp ELSE start_time[1]
          relative_time == RelativeTime(timestamp, start)
          acc1 == [acc EXCEPT !.timestamps = Append(@, relative_time)]
      IN  IF ~FloatOk(rows[i].cpu_percent) THEN acc1
          ELSE
            LET acc2 == [acc1 EXCEPT
                           !.cpu_values = Append(@, Float(rows[i].cpu_percent))]
            IN  IF ~FloatOk(rows[i].memory_mb) THEN acc2
                ELSE ReadRows(rows, i + 1, <<start>>,
                       [acc2 EXCEPT
                          !.memory_values = Append(@, Float(rows[i].memory_mb))])

parse_metrics_csv(file) ==
    IF ~file.exists THEN NoSeries          \* FileNotFoundError, caught
    ELSE ReadRows(file.rows, 1, <<>>, NoSeries)

(***************************************************************************)
(* The report text is a sequence of segments [label, tok, unit]: a label,  *)
(* white space (for "requests in": the label follows), the maximal run     *)
(* tok of characters in [0-9.] and the maximal run unit of word characters *)
(* right after it.  re.search takes the first segment its pattern matches. *)
(***************************************************************************)
NoMatch == [ok |-> FALSE, num |-> <<>>, unit |-> <<>>]

unitKB == <<"K", "B">>
unitMB == <<"M", "B">>
unitGB == <<"G", "B">>
unitB == <<"B">>
unitUs == <<"u", "s">>
unitMs == <<"m", "s">>
unitS == <<"s">>
sufK == <<"K">>
sufM == <<"M">>

Min(S) == CHOOSE x \in S : \A y \in S : x <= y

\* re.search(pattern, content), given the pattern's match at each segment:
\* the leftmost match
Search(at) ==
    LET hits == {i \in 1..Len(at) : at[i].ok}
    IN  IF hits = {} THEN NoMatch ELSE at[Min(hits)]

\* r'Requests/sec:\s+([\d.]+)'
ReRequestsPerSec(seg) ==
    IF seg.label = "Requests/sec:"
    THEN [ok |-> TRUE, num |-> seg.tok, unit |-> <<>>]
    ELSE NoMatch

\* r'Transfer/sec:\s+([\d.]+)([KMG]B)'
ReTransfer(seg) ==
    IF seg.label = "Transfer/sec:" /\ seg.unit \in {unitKB, unitMB, unitGB}
    THEN [ok |-> TRUE, num |-> seg.tok, unit |-> seg.unit]
    ELSE NoMatch

\* r'<label>\s+([\d.]+)(\w+)': with no word character after tok, [\d.]+ gives
\* back characters until \w+ finds a digit of tok to take
ReLabelNumUnit(label, seg) ==
    IF seg.label # label THEN NoMatch
    ELSE IF seg.unit # <<>>
    THEN [ok |-> TRUE, num |-> seg.tok, unit |-> seg.unit]
    ELSE
      LET ks == {k \in 1..(Len(seg.tok) - 1) : seg.tok[k + 1] \in Digits}
      IN  IF ks = {} THEN NoMatch
          ELSE LET k == CHOOSE x \in ks : \A y \in ks : y <= x
               IN  [ok |-> TRUE, num |-> SubSeq(seg.tok, 1, k), unit |-> <<seg.tok[k + 1]>>]

ReLatency(seg) == ReLabelNumUnit("Latency", seg)
Re50(seg) == ReLabelNumUnit("50%", seg)
Re75(seg) == ReLabelNumUnit("75%", seg)
Re90(seg) == ReLabelNumUnit("90%", seg)
Re99(seg) == ReLabelNumUnit("99%", seg)

\* r'([\d.]+)([KM])?\s+requests in'
ReTotalRequests(seg) ==
    IF seg.label = "requests in" /\ seg.unit \in {<<>>, sufK, sufM}
    THEN [ok |-> TRUE, num |-> seg.tok, unit |-> seg.unit]
    ELSE NoMatch

(***************************************************************************)
(* The unit conversions of parse_wrk_output.                               *)
(***************************************************************************)
\* faulty variant: decimal instead of binary multiples
ToMB_decimal(value, unit) ==
    IF unit = unitKB THEN RatDiv(value, 1000)
    ELSE IF unit = unitGB THEN RatMul(value, 1000)
    ELSE value

\* Convert to MB
ToMB(value, unit) ==
    IF unit = unitKB THEN RatDiv(value, 1024)
    ELSE IF unit = unitGB THEN RatMul(value, 1024)
    ELSE value

\* Convert to ms
ToMs(value, unit) ==
    IF unit = unitS THEN RatMul(value, 1000)
    ELSE IF unit = unitUs THEN RatDiv(value, 1000)
    ELSE value

ToCount(value, unit) ==
    IntOf(IF unit = sufK THEN RatMul(value, 1000)
          ELSE IF unit = sufM THEN RatMul(value, 1000000)
          ELSE value)

(***************************************************************************)
(* BenchmarkResult and parse_wrk_output.                                   *)
(***************************************************************************)
BenchmarkResult(name) ==
    [name |-> name,
     requests_per_sec |-> Zero, transfer_per_sec |-> Zero,
     avg_latency |-> Zero, max_latency |-> Zero, stdev_latency |-> Zero,
     latency_50 |-> Zero, latency_75 |-> Zero, latency_90 |-> Zero,
     latency_99 |-> Zero, total_requests |-> 0, total_transfer |-> Zero,
     cpu_timeline |-> <<>>, memory_timeline |-> <<>>, timestamps |-> <<>>]

\* Path(filepath).stem.split('_')[0], of the stem
SubjectName(stem) ==
    LET us_ == {i \in 1..Len(stem) : stem[i] = "_"}
    IN  IF us_ = {} THEN stem ELSE SubSeq(stem, 1, Min(us_) - 1)

Raised == [status |-> "raised"]
Returned(rec) == [status |-> "returned", rec |-> rec]

\* one "match = re.search(...); if match: value = float(...); ..." block:
\* the field's new value, or the default when the pattern does not match
LatencyField(m) == IF m.ok THEN ToMs(Float(m.num), m.unit) ELSE Zero

\* the eight re.search calls of parse_wrk_output, by the field each fills
Matches(text) ==
    [requests_per_sec |-> Search([k \in 1..Len(text) |-> ReRequestsPerSec(text[k])]),
     transfer_per_sec |-> Search([k \in 1..Len(text) |-> ReTransfer(text[k])]),
     avg_latency |-> Search([k \in 1..Len(text) |-> ReLatency(text[k])]),
     latency_50 |-> Search([k \in 1..Len(text) |-> Re50(text[k])]),
     latency_75 |-> Search([k \in 1..Len(text) |-> Re75(text[k])]),
     latency_90 |-> Search([k \in 1..Len(text) |-> Re90(text[k])]),
     latency_99 |-> Search([k \in 1..Len(text) |-> Re99(text[k])]),
     total_requests |-> Search([k \in 1..Len(text) |-> ReTotalRequests(text[k])])]

\* parse_wrk_output(filepath) for the file [stem, readable, text, metrics]
parse_wrk_output(file) ==
    LET match == Matches(file.text)
        series == parse_metrics_csv(file.metrics)
    IN  IF ~file.readable THEN Raised                      \* open() raises
        ELSE IF \E field \in DOMAIN match :
                   match[field].ok /\ ~FloatOk(match[field].num)
        THEN Raised                                        \* float() raises
        ELSE Returned(
          [BenchmarkResult(SubjectName(file.stem)) EXCEPT
             !.requests_per_sec =
                 IF match.requests_per_sec.ok
                 THEN Float(match.requests_per_sec.num) ELSE @,
             !.transfer_per_sec =
                 IF match.transfer_per_sec.ok
                 THEN ToMB(Float(match.transfer_per_sec.num),
                           match.transfer_per_sec.unit)
                 ELSE @,
             !.avg_latency = LatencyField(match.avg_latency),
             !.latency_50 = LatencyField(match.latency_50),
             !.latency_75 = LatencyField(match.latency_75),
             !.latency_90 = LatencyField(match.latency_90),
             !.latency_99 = LatencyField(match.latency_99),
             !.total_requests =
                 IF match.total_requests.ok
                 THEN ToCount(Float(match.total_requests.num),
                              match.total_requests.unit)
                 ELSE @,
             !.timestamps =
                 IF file.metrics.exists THEN series.timestamps ELSE @,
             !.cpu_timeline =
                 IF file.metrics.exists THEN series.cpu_values ELSE @,
             !.memory_timeline =
                 IF file.metrics.exists THEN series.memory_values ELSE @])

(***************************************************************************)
(* Inputs: file names, report texts and metrics files.                     *)
(***************************************************************************)
SeqsUpTo(S, n) == UNION {[1..k -> S] : k \in 0..n}

nginx == <<"n", "g", "i", "n", "x">>
caddy == <<"c", "a", "d", "d", "y">>
haproxy == <<"h", "a", "p", "r", "o", "x", "y">>
traefik == <<"t", "r", "a", "e", "f", "i", "k">>
fibonacci == <<"f", "i", "b", "o", "n", "a", "c", "c", "i">>
batch0101 == <<"2", "0", "2", "4", "0", "1", "0", "1", "_", "0", "0", "0", "0", "0", "0">>
batch0102 == <<"2", "0", "2", "4", "0", "1", "0", "2", "_", "0", "0", "0", "0", "0", "0">>
Und == <<"_">>

Idle == [status |-> "none"]

NoFile == [exists |-> FALSE, rows |-> <<>>]
MetricsFile(rows) == [exists |-> TRUE, rows |-> rows]

Row(t, c, m) == [timestamp |-> t, cpu_percent |-> c, memory_mb |-> m]

CsvRows ==
    {Row(t, c, m) : t \in {<<"1", "0", "0">>, <<"1", "0", "1">>, <<"1", "0", "3">>, <<"x">>},
                    c \in {<<"5">>, <<"x">>},
                    m \in {<<"7", ".", "5">>, None}}

Seg(label, tok, unit) == [label |-> label, tok |-> tok, unit |-> unit]

LatencyLabels == {"Latency", "50%", "75%", "90%", "99%"}

Segments ==
    {Seg("Requests/sec:", t, <<>>) : t \in {<<"5", "0", "0">>, <<"1", ".", "2", ".", "3">>, <<".">>}}
    \cup {Seg("Transfer/sec:", <<"1", ".", "5">>, u) : u \in {unitKB, unitMB, unitGB, unitB}}
    \cup {Seg(l, <<"1", ".", "5">>, u) : l \in LatencyLabels, u \in {unitUs, unitMs, unitS}}
    \cup {Seg(l, <<"1", "5">>, <<>>) : l \in LatencyLabels}
    \cup {Seg("requests in", t, u) : t \in {<<"5", "0", "0">>, <<"1", ".", "2">>, <<"1", ".", "5">>, <<"1", ".", "2", ".", "3">>},
                                     u \in {<<>>, sufK, sufM}}

Texts == SeqsUpTo(Segments, MaxSegs)

WrkFile(stem, text, metrics) ==
    [stem |-> stem, readable |-> TRUE, text |-> text, metrics |-> metrics]

NginxStem == nginx \o Und \o fibonacci \o Und \o batch0102

(***************************************************************************)
(* A single call of parse_wrk_output.                                      *)
(***************************************************************************)
MainIdle ==
    /\ argv = <<>>
    /\ disk = {}
    /\ pc = "idle"
    /\ result_files = <<>>
    /\ latest_timestamp = <<>>
    /\ idx = 1
    /\ results = <<>>
    /\ parsed = <<>>
    /\ consumed = <<>>
    /\ exit_status = -1

\* report texts of every shape, with or without a small metrics file
InitWrk ==
    /\ filepath \in {WrkFile(NginxStem, t, m) :
                       t \in Texts,
                       m \in {NoFile, MetricsFile(<<Row(<<"1", "0", "0">>, <<"5">>, <<"7">>)>>)}}
    /\ result = Idle
    /\ MainIdle

\* metrics files of every shape, under a fixed report
InitCsv ==
    /\ filepath \in {WrkFile(NginxStem, t, m) :
                       t \in {<<>>, <<Seg("Requests/sec:", <<"5", "0", "0">>, <<>>)>>},
                       m \in {NoFile} \cup
                             {MetricsFile(r) : r \in SeqsUpTo(CsvRows, MaxRows)}}
    /\ result = Idle
    /\ MainIdle

ParseWrkOutput ==
    /\ result = Idle
    /\ result' = parse_wrk_output(filepath)
    /\ UNCHANGED <<filepath, mainVars>>

NextParse == ParseWrkOutput

SpecWrk == InitWrk /\ [][NextParse]_vars
SpecCsv == InitCsv /\ [][NextParse]_vars

(***************************************************************************)
(* Properties of a single call of parse_wrk_output.                        *)
(***************************************************************************)
\* the float value is the rational n/d
RatIs(value, n, d) == value.n * d = n * value.d

Rec == result.rec
MRows == filepath.metrics.rows

RowOk(row) ==
    FloatOk(row.timestamp) /\ FloatOk(row.cpu_percent) /\ FloatOk(row.memory_mb)

WellFormedCsv == filepath.metrics.exists /\ \A k \in 1..Len(MRows) : RowOk(MRows[k])

\* C1: every returned record has timestamps, cpu_timeline and
\* memory_timeline of one length, whatever the metrics file holds.
C1_SeriesSameLength ==
    result.status = "returned" =>
        /\ Len(Rec.timestamps) = Len(Rec.cpu_timeline)
        /\ Len(Rec.cpu_timeline) = Len(Rec.memory_timeline)

\* C2: a malformed row, at whatever index, leaves the file's three series
\* empty: rows parsed before it are not kept.
C2_MalformedRowYieldsEmpty ==
    (/\ result.status = "returned"
     /\ filepath.metrics.exists
     /\ \E k \in 1..Len(MRows) : ~RowOk(MRows[k]))
    => /\ Rec.timestamps = <<>>
       /\ Rec.cpu_timeline = <<>>
       /\ Rec.memory_timeline = <<>>

\* C6: a well-formed metrics file of n rows gives three series of length n
\* in row order; timestamps[k] is row k's timestamp minus the first row's
\* and cpu/memory are row k's values.
C6_TimeSeriesAlignment ==
    (result # Idle /\ WellFormedCsv) =>
        /\ result.status = "returned"
        /\ Len(Rec.timestamps) = Len(MRows)
        /\ Len(Rec.cpu_timeline) = Len(MRows)
        /\ Len(Rec.memory_timeline) = Len(MRows)
        /\ \A k \in 1..Len(MRows) :
              LET t == Float(MRows[k].timestamp)
                  t0 == Float(MRows[1].timestamp)
                  c == Float(MRows[k].cpu_percent)
                  m == Float(MRows[k].memory_mb)
              IN  /\ RatIs(Rec.timestamps[k], t.n * t0.d - t0.n * t.d, t.d * t0.d)
                  /\ Rec.cpu_timeline[k] = c
                  /\ Rec.memory_timeline[k] = m
        /\ Len(MRows) > 0 => Rec.timestamps[1] = Zero

\* witness of C6: the rows at 100, 101, 103 are read as 0, 1, 3
C6_Witness ==
    /\ result.status = "returned"
    /\ WellFormedCsv
    /\ Len(MRows) = 3
    /\ Rec.timestamps = <<Zero, [n |-> 1, d |-> 1], [n |-> 3, d |-> 1]>>
    /\ Len(Rec.cpu_timeline) = 3
    /\ Len(Rec.memory_timeline) = 3

Text == filepath.text

\* the match of the field's pattern in the text
MatchOf(field) == Matches(Text)[field]

LatencyFields == {"avg_latency", "latency_50", "latency_75", "latency_90", "latency_99"}
FloatFields == {"requests_per_sec", "transfer_per_sec"} \cup LatencyFields
ScalarFields == FloatFields \cup {"total_requests"}

IsDefault(field) ==
    IF field = "total_requests" THEN Rec[field] = 0 ELSE Rec[field] = Zero

\* C3: for a text in which a label's pattern does not match, the call still
\* returns a record and that field keeps its zero default, whatever the
\* other labels match.
C3_AbsenceIsNotFailure ==
    result # Idle =>
        \A field \in ScalarFields :
            ~MatchOf(field).ok => (result.status = "returned" /\ IsDefault(field))

\* what of C3 the code does keep: a text that matches no label gives the
\* all-zero record, and in every returned record an unmatched field is zero
AbsentFieldsAreZero ==
    result # Idle =>
        /\ (\A field \in ScalarFields : ~MatchOf(field).ok)
               => result.status = "returned"
        /\ result.status = "returned" =>
               \A field \in ScalarFields : ~MatchOf(field).ok => IsDefault(field)

\* C4: a transfer rate in KB, MB or GB is stored divided by 1024, unchanged
\* or multiplied by 1024; each of the five latencies in us, ms or s is
\* stored divided by 1000, unchanged or multiplied by 1000.
C4_UnitNormalization ==
    result.status = "returned" =>
        /\ LET m == MatchOf("transfer_per_sec")
               raw == Float(m.num)
               v == Rec.transfer_per_sec
           IN  m.ok =>
                 /\ m.unit = unitKB => RatIs(v, raw.n, raw.d * 1024)
                 /\ m.unit = unitMB => RatIs(v, raw.n, raw.d)
                 /\ m.unit = unitGB => RatIs(v, raw.n * 1024, raw.d)
        /\ \A field \in LatencyFields :
             LET m == MatchOf(field)
                 raw == Float(m.num)
                 v == Rec[field]
             IN  m.ok =>
                   /\ m.unit = unitUs => RatIs(v, raw.n, raw.d * 1000)
                   /\ m.unit = unitMs => RatIs(v, raw.n, raw.d)
                   /\ m.unit = unitS => RatIs(v, raw.n * 1000, raw.d)

\* witness of C4: 1.5KB of transfer beside a latency of 1.5s
C4_Witness ==
    /\ result.status = "returned"
    /\ MatchOf("transfer_per_sec").ok
    /\ MatchOf("transfer_per_sec").unit = unitKB
    /\ Rec.transfer_per_sec = [n |-> 3, d |-> 2048]
    /\ \E field \in LatencyFields :
          /\ MatchOf(field).ok
          /\ MatchOf(field).unit = unitS
          /\ Rec[field] = [n |-> 1500, d |-> 1]

\* C5: with "<number>[K|M] requests in" in the text, total_requests is the
\* integer equal to the number times 1, 1000 or 1000000, of the first match.
C5_TotalRequests ==
    result.status = "returned" =>
        LET m == MatchOf("total_requests")
            raw == Float(m.num)
            factor == IF m.unit = sufK THEN 1000
                      ELSE IF m.unit = sufM THEN 1000000 ELSE 1
        IN  m.ok => /\ Rec.total_requests >= 0
                    /\ Rec.total_requests * raw.d = raw.n * factor

\* what of C5 the model's exact arithmetic keeps: the product truncated
TotalRequestsTruncated ==
    result.status = "returned" =>
        LET m == MatchOf("total_requests")
            raw == Float(m.num)
            factor == IF m.unit = sufK THEN 1000
                      ELSE IF m.unit = sufM THEN 1000000 ELSE 1
        IN  m.ok => Rec.total_requests = (raw.n * factor) \div raw.d

(***************************************************************************)
(* Strings of main(): comparison, search, the glob patterns and the batch  *)
(* suffix.  A result file is named by its stem: its path is "results/",    *)
(* the stem and ".txt", and neither of the two holds a digit or a '_'.     *)
(***************************************************************************)
\* the characters of the model in code point order
CodeOrder == <<".", "0", "1", "2", "3", "4", "5", "6", "7", "8", "9", "_", "a", "b", "c", "d", "e", "f", "g", "h", "i", "j", "k", "l", "m", "n", "o", "p", "q", "r", "s", "t", "u", "v", "w", "x", "y", "z">>

Ord(c) == CHOOSE k \in 1..Len(CodeOrder) : CodeOrder[k] = c

\* a < b, of two Python strings
StrLess(a, b) ==
    \E k \in 1..(Len(b)) :
        /\ \A j \in 1..(k - 1) : j <= Len(a) /\ a[j] = b[j]
        /\ \/ k > Len(a)
           \/ k <= Len(a) /\ Ord(a[k]) < Ord(b[k])

\* max(strings)
StrMax(S) == CHOOSE x \in S : \A y \in S : y = x \/ StrLess(y, x)

\* sub in str
Contains(sub, str) ==
    \E k \in 0..(Len(str) - Len(sub)) : SubSeq(str, k + 1, k + Len(sub)) = sub

EndsWith(str, suffix) ==
    /\ Len(suffix) <= Len(str)
    /\ SubSeq(str, Len(str) - Len(suffix) + 1, Len(str)) = suffix

\* glob.glob('results/*fibonacci*.txt'), and with sys.argv[1]
\* glob.glob(f'results/*fibonacci*{timestamp}.txt')
GlobMatches(stem, args) ==
    IF args = <<>> THEN Contains(fibonacci, stem)
    ELSE /\ EndsWith(stem, args[1])
         /\ Contains(fibonacci, SubSeq(stem, 1, Len(stem) - Len(args[1])))

\* re.search(r'_(\d{8}_\d{6})\.txt$', f): <<group(1)>>, or <<>> for no match
BatchSuffix(stem) ==
    LET n == Len(stem)
    IN  IF /\ n >= 16
           /\ stem[n - 15] = "_"
           /\ \A k \in (n - 14)..(n - 7) : stem[k] \in Digits
           /\ stem[n - 6] = "_"
           /\ \A k \in (n - 5)..n : stem[k] \in Digits
        THEN <<SubSeq(stem, n - 14, n)>>
        ELSE <<>>

\* faulty variant: the file's own suffix is compared
InLatestBatch_bySuffix(latest, stem) == BatchSuffix(stem) = <<latest>>

\* "latest_timestamp in f" of the list comprehension at line 549
InLatestBatch(latest, stem) == Contains(latest, stem)

Perms(S) ==
    {p \in [1..Cardinality(S) -> S] :
        \A a, b \in 1..Cardinality(S) : a # b => p[a] # p[b]}

FileAt(stem) == CHOOSE f \in disk : f.stem = stem

(***************************************************************************)
(* results.sort(key=lambda r: r.name): a stable sort on the name.          *)
(***************************************************************************)
\* faulty variant: descending
NameBefore_descending(a, b) == StrLess(b.name, a.name)

\* a sorts strictly before b
NameBefore(a, b) == StrLess(a.name, b.name)

RECURSIVE InsertSorted(_, _)
\* r placed after every element that does not sort after it
InsertSorted(sorted, r) ==
    IF sorted = <<>> THEN <<r>>
    ELSE IF NameBefore(r, sorted[Len(sorted)])
    THEN Append(InsertSorted(SubSeq(sorted, 1, Len(sorted) - 1), r),
                sorted[Len(sorted)])
    ELSE Append(sorted, r)

RECURSIVE SortByName(_)
SortByName(rs) ==
    IF rs = <<>> THEN <<>>
    ELSE InsertSorted(SortByName(SubSeq(rs, 1, Len(rs) - 1)), rs[Len(rs)])

(***************************************************************************)
(* print_summary and the chart functions, as what they do with results.    *)
(***************************************************************************)
RatAdd(a, b) == Rat(a.n * b.d + b.n * a.d, a.d * b.d)
RatLess(a, b) == a.n * b.d < b.n * a.d

RECURSIVE Sum(_)
Sum(xs) == IF xs = <<>> THEN Zero ELSE RatAdd(xs[1], Sum(Tail(xs)))

\* np.mean of a non-empty list
Mean(xs) == RatDiv(Sum(xs), Len(xs))

Names(rs) == [k \in 1..Len(rs) |-> rs[k].name]

\* max(..., key=...) and min(..., key=...), given the keys: the index of the
\* first of the extreme elements
FirstMax(keys) ==
    Min({k \in 1..Len(keys) : \A j \in 1..Len(keys) : ~RatLess(keys[k], keys[j])})
FirstMin(keys) ==
    Min({k \in 1..Len(keys) : \A j \in 1..Len(keys) : ~RatLess(keys[j], keys[k])})

HasCpu(r) == r.cpu_timeline # <<>>
HasMem(r) == r.memory_timeline # <<>>

\* any(r.cpu_timeline for r in results)
AnyCpu(rs) == \E k \in 1..Len(rs) : HasCpu(rs[k])

\* print_summary(results): what it printed, and whether it raised
print_summary(rs) ==
    LET with_cpu == SelectSeq(rs, HasCpu)
        with_mem == SelectSeq(rs, HasMem)
        usage == AnyCpu(rs)
    IN  [consumer |-> "print_summary",
         names |-> Names(rs),
         \* "Resource Usage (Average)", one row per record with both series
         usage_section |-> usage,
         usage_rows |-> IF usage
                        THEN Names(SelectSeq(with_cpu, HasMem)) ELSE <<>>,
         highest_throughput |->
             rs[FirstMax([k \in 1..Len(rs) |-> rs[k].requests_per_sec])].name,
         lowest_latency |->
             rs[FirstMin([k \in 1..Len(rs) |-> rs[k].avg_latency])].name,
         \* the winners by resource usage
         winners_section |-> usage,
         lowest_cpu |->
             IF usage
             THEN <<with_cpu[FirstMin([k \in 1..Len(with_cpu) |->
                                         Mean(with_cpu[k].cpu_timeline)])].name>>
             ELSE <<>>,
         lowest_memory |->
             IF usage /\ with_mem # <<>>
             THEN <<with_mem[FirstMin([k \in 1..Len(with_mem) |->
                                         Mean(with_mem[k].memory_timeline)])].name>>
             ELSE <<>>,
         \* min() of an empty generator raises ValueError
         raised |-> usage /\ with_mem = <<>>]

\* the keys of COLORS and LINE_STYLES
COLORS == {nginx, caddy, traefik, haproxy}

\* one of the three bar charts: COLORS[r.name] raises KeyError
BarChart(chart, rs) ==
    [consumer |-> chart, names |-> Names(rs),
     raised |-> \E k \in 1..Len(rs) : rs[k].name \notin COLORS]

\* create_time_series_chart: ax.plot(x, y) raises ValueError when x and y
\* differ in length
create_time_series_chart(rs) ==
    [consumer |-> "create_time_series_chart", names |-> Names(rs),
     raised |-> \E k \in 1..Len(rs) :
        \/ /\ rs[k].timestamps # <<>> /\ rs[k].cpu_timeline # <<>>
           /\ \/ rs[k].name \notin COLORS
              \/ Len(rs[k].timestamps) # Len(rs[k].cpu_timeline)
        \/ /\ rs[k].timestamps # <<>> /\ rs[k].memory_timeline # <<>>
           /\ \/ rs[k].name \notin COLORS
              \/ Len(rs[k].timestamps) # Len(rs[k].memory_timeline)]

(***************************************************************************)
(* main(), one action per stage.                                           *)
(***************************************************************************)
\* lines 524-536: the pattern, glob.glob in any order, exit 1 on no file
Glob ==
    /\ pc = "start"
    /\ LET matched == {f.stem : f \in {g \in disk : GlobMatches(g.stem, argv)}}
       IN  \E order \in Perms(matched) :
              /\ result_files' = order
              /\ pc' = IF matched = {} THEN "exit" ELSE "group"
              /\ exit_status' = IF matched = {} THEN 1 ELSE exit_status
    /\ UNCHANGED <<parseVars, argv, disk, latest_timestamp, idx, results,
                   parsed, consumed>>

\* lines 538-550: with no argument, keep the files of the latest timestamp
GroupByLatest ==
    /\ pc = "group"
    /\ LET timestamps == {BatchSuffix(result_files[k])[1] :
                            k \in {j \in 1..Len(result_files) :
                                     BatchSuffix(result_files[j]) # <<>>}}
           latest == StrMax(timestamps)
           InLatest(stem) == InLatestBatch(latest, stem)
       IN  IF argv = <<>> /\ timestamps # {}
           THEN /\ latest_timestamp' = <<latest>>
                /\ result_files' = SelectSeq(result_files, InLatest)
           ELSE UNCHANGED <<latest_timestamp, result_files>>
    /\ pc' = "parse"
    /\ UNCHANGED <<parseVars, argv, disk, idx, results, parsed, consumed,
                   exit_status>>

\* lines 553-559: one turn of the loop; a file whose parse raises is skipped
ParseNextFile ==
    /\ pc = "parse"
    /\ idx <= Len(result_files)
    /\ LET r == parse_wrk_output(FileAt(result_files[idx]))
       IN  /\ results' = IF r.status = "returned"
                         THEN Append(results, r.rec) ELSE results
           /\ parsed' = Append(parsed, [stem |-> result_files[idx], got |-> r])
    /\ idx' = idx + 1
    /\ UNCHANGED <<parseVars, argv, disk, pc, result_files, latest_timestamp,
                   consumed, exit_status>>

\* faulty variant: any failed parse aborts the run
CheckResults_abortOnAnyFailure ==
    /\ pc = "parse"
    /\ idx > Len(result_files)
    /\ pc' = IF Len(results) < Len(result_files) THEN "exit" ELSE "sort"
    /\ exit_status' = IF Len(results) < Len(result_files) THEN 1 ELSE exit_status
    /\ UNCHANGED <<parseVars, argv, disk, result_files, latest_timestamp, idx,
                   results, parsed, consumed>>

\* lines 561-563
CheckResults ==
    /\ pc = "parse"
    /\ idx > Len(result_files)
    /\ pc' = IF results = <<>> THEN "exit" ELSE "sort"
    /\ exit_status' = IF results = <<>> THEN 1 ELSE exit_status
    /\ UNCHANGED <<parseVars, argv, disk, result_files, latest_timestamp, idx,
                   results, parsed, consumed>>

\* line 568
SortResults ==
    /\ pc = "sort"
    /\ results' = SortByName(results)
    /\ pc' = "summary"
    /\ UNCHANGED <<parseVars, argv, disk, result_files, latest_timestamp, idx,
                   parsed, consumed, exit_status>>

\* line 571; an exception ends the run
PrintSummary ==
    /\ pc = "summary"
    /\ LET out == print_summary(results)
       IN  /\ consumed' = Append(consumed, out)
           /\ pc' = IF out.raised THEN "crashed" ELSE "charts"
           /\ exit_status' = IF out.raised THEN 1 ELSE exit_status
    /\ UNCHANGED <<parseVars, argv, disk, result_files, latest_timestamp, idx,
                   results, parsed>>

\* lines 574-581
CreateCharts ==
    /\ pc = "charts"
    /\ LET out == BarChart("create_throughput_chart", results)
       IN  IF out.raised
           THEN /\ consumed' = Append(consumed, out)
                /\ pc' = "crashed"
                /\ exit_status' = 1
           ELSE /\ consumed' = consumed \o
                     <<out, BarChart("create_latency_chart", results),
                       BarChart("create_latency_percentiles_chart", results)>>
                /\ pc' = "timeline"
                /\ UNCHANGED exit_status
    /\ UNCHANGED <<parseVars, argv, disk, result_files, latest_timestamp, idx,
                   results, parsed>>

\* lines 583-598
ResourceCharts ==
    /\ pc = "timeline"
    /\ LET out == create_time_series_chart(results)
       IN  IF AnyCpu(results)
           THEN /\ consumed' = Append(consumed, out)
                /\ pc' = IF out.raised THEN "crashed" ELSE "done"
                /\ exit_status' = IF out.raised THEN 1 ELSE 0
           ELSE /\ pc' = "done"
                /\ exit_status' = 0
                /\ UNCHANGED consumed
    /\ UNCHANGED <<parseVars, argv, disk, result_files, latest_timestamp, idx,
                   results, parsed>>

NextMain ==
    \/ Glob
    \/ GroupByLatest
    \/ ParseNextFile
    \/ CheckResults
    \/ SortResults
    \/ PrintSummary
    \/ CreateCharts
    \/ ResourceCharts

(***************************************************************************)
(* Runs of main().                                                         *)
(***************************************************************************)
Content(text, metrics) == [readable |-> TRUE, text |-> text, metrics |-> metrics]
NoContent == [readable |-> FALSE, text |-> <<>>, metrics |-> NoFile]

OnDisk(stem, c) ==
    [stem |-> stem, readable |-> c.readable, text |-> c.text, metrics |-> c.metrics]

\* every directory of at most MaxFiles files, named from stems and holding contents
Disks(stems, contents) ==
    UNION {{{OnDisk(st, c[st]) : st \in S} : c \in [S -> contents]} :
             S \in {T \in SUBSET stems : Cardinality(T) <= MaxFiles}}

Stem(subject, rest) == subject \o Und \o rest

SelectStems ==
    {Stem(nginx, fibonacci \o Und \o batch0101),
     Stem(nginx, fibonacci \o Und \o batch0102),
     Stem(caddy, fibonacci \o Und \o batch0101),
     Stem(caddy, fibonacci \o Und \o batch0102),
     \* no batch suffix
     Stem(traefik, fibonacci),
     \* the later date inside the name, no batch suffix
     Stem(haproxy, fibonacci \o Und \o batch0102 \o Und \o <<"o", "l", "d">>),
     \* an older suffix after the later date
     Stem(traefik, fibonacci \o Und \o batch0102 \o Und \o batch0101),
     \* not a fibonacci report
     Stem(haproxy, batch0102)}

MainStems ==
    {Stem(nginx, fibonacci \o Und \o batch0102),
     Stem(caddy, fibonacci \o Und \o batch0102),
     Stem(traefik, fibonacci \o Und \o batch0102),
     Stem(haproxy, fibonacci \o Und \o batch0102)}

FastText == <<Seg("Requests/sec:", <<"5", "0", "0">>, <<>>), Seg("Latency", <<"1", ".", "5">>, unitMs)>>
SlowText == <<Seg("Requests/sec:", <<"1", "5">>, <<>>), Seg("Latency", <<"1", ".", "5">>, unitS)>>
BadText == <<Seg("Requests/sec:", <<"1", ".", "2", ".", "3">>, <<>>)>>

GoodCsv == MetricsFile(<<Row(<<"1", "0", "0">>, <<"5">>, <<"7", ".", "5">>), Row(<<"1", "0", "1">>, <<"5">>, <<"7", ".", "5">>)>>)
BadMemCsv == MetricsFile(<<Row(<<"1", "0", "0">>, <<"5">>, None)>>)

MainContents ==
    {Content(FastText, NoFile), Content(SlowText, GoodCsv),
     Content(FastText, BadMemCsv),
     Content(BadText, NoFile), NoContent}

ParseIdle ==
    /\ filepath = WrkFile(NginxStem, <<>>, NoFile)
    /\ result = Idle

MainStart ==
    /\ pc = "start"
    /\ result_files = <<>>
    /\ latest_timestamp = <<>>
    /\ idx = 1
    /\ results = <<>>
    /\ parsed = <<>>
    /\ consumed = <<>>
    /\ exit_status = -1

\* file names of every shape, each an empty report without metrics
InitSelect ==
    /\ ParseIdle
    /\ argv \in {<<>>, <<batch0101>>, <<batch0102>>}
    /\ disk \in Disks(SelectStems, {Content(<<>>, NoFile)})
    /\ MainStart

\* one batch of up to MaxFiles subjects, with reports and metrics of every kind
InitMain ==
    /\ ParseIdle
    /\ argv = <<>>
    /\ disk \in Disks(MainStems, MainContents)
    /\ MainStart

SpecSelect == InitSelect /\ [][NextMain]_vars
SpecMain == InitMain /\ [][NextMain]_vars

(***************************************************************************)
(* Properties of main().                                                   *)
(***************************************************************************)
\* the files glob.glob gave
Candidates == {f.stem : f \in {g \in disk : GlobMatches(g.stem, argv)}}
Suffixed == {st \in Candidates : BatchSuffix(st) # <<>>}
Selected == {result_files[k] : k \in 1..Len(result_files)}
Grouped == pc \notin {"idle", "start", "group", "exit"}

\* C8: with no identifier given, the batch chosen is the greatest suffix
\* among the candidates, and of the files that carry a suffix exactly those
\* with that suffix are selected.
C8_LatestBatchOnly ==
    (Grouped /\ argv = <<>> /\ Suffixed # {}) =>
        /\ \E st \in Suffixed : latest_timestamp = BatchSuffix(st)
        /\ \A st \in Suffixed :
              \/ BatchSuffix(st) = latest_timestamp
              \/ StrLess(BatchSuffix(st)[1], latest_timestamp[1])
        /\ \A st \in Suffixed :
              st \in Selected <=> BatchSuffix(st) = latest_timestamp

\* what of C8 the code keeps: the batch chosen is the greatest suffix, every
\* file with that suffix is selected, and a selected file with an older
\* suffix has the chosen identifier elsewhere in its name
LatestIsGreatestSuffix ==
    (Grouped /\ argv = <<>> /\ Suffixed # {}) =>
        /\ \E st \in Suffixed : latest_timestamp = BatchSuffix(st)
        /\ \A st \in Suffixed :
              \/ BatchSuffix(st) = latest_timestamp
              \/ StrLess(BatchSuffix(st)[1], latest_timestamp[1])
        /\ \A st \in Suffixed :
              BatchSuffix(st) = latest_timestamp => st \in Selected
        /\ \A st \in Selected : Contains(latest_timestamp[1], st)

\* C9: with no identifier given, every candidate without a batch suffix is
\* in the selected set, whichever batch was chosen.
C9_UnsuffixedAlwaysSelected ==
    (Grouped /\ argv = <<>>) =>
        \A st \in Candidates \ Suffixed : st \in Selected

\* C9, amended: a candidate without a batch suffix is selected exactly when
\* no candidate carries a suffix or the latest identifier occurs in its name.
C9_UnsuffixedSelectedIff ==
    (Grouped /\ argv = <<>>) =>
        \A st \in Candidates \ Suffixed :
            st \in Selected <=>
                \/ Suffixed = {}
                \/ \E k \in 0..(Len(st) - 15) :
                      <<SubSeq(st, k + 1, k + 15)>> = latest_timestamp

\* witness of C9: one unsuffixed candidate is dropped, another is kept
C9_Witness ==
    /\ Grouped /\ argv = <<>> /\ Suffixed # {}
    /\ \E st \in Candidates \ Suffixed : st \notin Selected
    /\ \E st \in Candidates \ Suffixed : st \in Selected

Sorted(names) ==
    \A k \in 1..(Len(names) - 1) :
        \/ names[k] = names[k + 1]
        \/ StrLess(names[k], names[k + 1])

\* C10: whatever the order the files were enumerated in, print_summary and
\* every chart function are given the results in ascending order of name.
C10_ConsumersSeeSortedResults ==
    /\ \A k \in 1..Len(consumed) :
          /\ Sorted(consumed[k].names)
          /\ consumed[k].names = Names(results)
    /\ pc \in {"summary", "charts", "timeline", "done", "crashed"}
          => Sorted(Names(results))

\* witness of C10: parsed as traefik, caddy, nginx; consumed as caddy, nginx, traefik
C10_Witness ==
    /\ Len(parsed) = 3
    /\ SubjectName(parsed[1].stem) = traefik
    /\ SubjectName(parsed[2].stem) = caddy
    /\ SubjectName(parsed[3].stem) = nginx
    /\ Len(consumed) >= 4
    /\ \A k \in 1..Len(consumed) : consumed[k].names = <<caddy, nginx, traefik>>

NoSeriesIn(rec) ==
    rec.timestamps = <<>> /\ rec.cpu_timeline = <<>> /\ rec.memory_timeline = <<>>

\* C7: a readable report without a metrics file gives a record with three
\* empty series, without raising; a batch of records without series runs
\* print_summary and main to the end with every resource step skipped.
C7_MissingSeries ==
    /\ \A k \in 1..Len(parsed) :
          LET f == FileAt(parsed[k].stem)
          IN  (f.readable /\ ~f.metrics.exists) =>
                 /\ parsed[k].got.status = "returned"
                 /\ NoSeriesIn(parsed[k].got.rec)
    /\ (\A k \in 1..Len(results) : NoSeriesIn(results[k])) =>
          /\ pc # "crashed"
          /\ \A k \in 1..Len(consumed) :
                /\ consumed[k].consumer # "create_time_series_chart"
                /\ ~consumed[k].raised
                /\ consumed[k].consumer = "print_summary" =>
                      /\ ~consumed[k].usage_section
                      /\ ~consumed[k].winners_section
                      /\ consumed[k].usage_rows = <<>>
                      /\ consumed[k].lowest_cpu = <<>>
                      /\ consumed[k].lowest_memory = <<>>

\* what of C7 the code keeps: the record of a report without a metrics file,
\* when there is one, has no series, and a batch without series skips every
\* resource step and ends with status 0
MissingSeriesSkipped ==
    /\ \A k \in 1..Len(parsed) :
          LET f == FileAt(parsed[k].stem)
          IN  (~f.metrics.exists /\ parsed[k].got.status = "returned")
                 => NoSeriesIn(parsed[k].got.rec)
    /\ (\A k \in 1..Len(results) : NoSeriesIn(results[k])) =>
          /\ pc # "crashed"
          /\ pc = "done" => (exit_status = 0 /\ Len(consumed) = 4)
          /\ \A k \in 1..Len(consumed) :
                /\ consumed[k].consumer # "create_time_series_chart"
                /\ ~consumed[k].raised
                /\ consumed[k].consumer = "print_summary" =>
                      /\ ~consumed[k].usage_section
                      /\ ~consumed[k].winners_section

DidReturn(p) == p.got.status = "returned"

\* the records of the files parsed so far that parsed, in the order parsed
ParsedRecords ==
    LET ok == SelectSeq(parsed, DidReturn)
    IN  [k \in 1..Len(ok) |-> ok[k].got.rec]

LoopDone == pc \notin {"start", "group", "parse"}

\* C11: a file whose parse raises is skipped and every other selected file is
\* still parsed and, if it parses, is in the results; main exits with status
\* 1 before print_summary or any chart exactly when no file matched or no
\* selected file parsed, and goes on to print_summary when one file parsed.
C11_FailurePropagation ==
    /\ Len(parsed) = idx - 1
    /\ \A k \in 1..Len(parsed) : parsed[k].stem = result_files[k]
    /\ (LoopDone /\ Candidates # {}) => Len(parsed) = Len(result_files)
    /\ results = IF pc \in {"start", "group", "parse", "sort", "exit"}
                 THEN ParsedRecords ELSE SortByName(ParsedRecords)
    /\ pc = "exit" =>
          /\ exit_status = 1
          /\ consumed = <<>>
          /\ \/ Candidates = {}
             \/ idx > Len(result_files) /\ ParsedRecords = <<>>
    /\ (pc # "start" /\ Candidates = {}) => pc = "exit"
    /\ (LoopDone /\ ParsedRecords = <<>>) => pc = "exit"
    /\ (LoopDone /\ ParsedRecords # <<>>) =>
          /\ pc \in {"sort", "summary", "charts", "timeline", "done", "crashed"}
          /\ pc \notin {"sort", "summary"} =>
                /\ consumed # <<>>
                /\ consumed[1].consumer = "print_summary"
                /\ consumed[1].names = Names(results)

\* witness of C11: a parse raised, a later file parsed, and the run ended
\* with status 0 after every chart
C11_Witness ==
    /\ pc = "done" /\ exit_status = 0
    /\ \E k \in 1..Len(parsed) :
          /\ parsed[k].got.status = "raised"
          /\ \E j \in (k + 1)..Len(parsed) : parsed[j].got.status = "returned"
    /\ Len(results) < Len(result_files)

Malformed(field) == MatchOf(field).ok /\ ~FloatOk(MatchOf(field).num)

\* C12: when a label matches but the captured token of digits and '.' is
\* not a number, parse_wrk_output does not raise: the record is returned
\* with that field at its zero default.
C12_MalformedTokenAbsorbed ==
    result # Idle =>
        \A field \in ScalarFields :
            Malformed(field) => (result.status = "returned" /\ IsDefault(field))

\* what the code does instead: the call raises exactly when the file is
\* unreadable or some matched token is not a number
MalformedTokenRaises ==
    result # Idle =>
        (result.status = "raised" <=>
            \/ ~filepath.readable
            \/ \E field \in ScalarFields : Malformed(field))

Summaries == {k \in 1..Len(consumed) : consumed[k].consumer = "print_summary"}

\* C13: whenever print_summary enters the section of the resource winners,
\* the lowest CPU and the lowest memory are both chosen among at least one
\* record, and print_summary does not raise, whatever records were parsed.
C13_WinnersNeverRaise ==
    \A k \in Summaries :
        /\ ~consumed[k].raised
        /\ consumed[k].winners_section =>
              /\ consumed[k].lowest_cpu # <<>>
              /\ consumed[k].lowest_memory # <<>>

\* what the code does keep: the lowest CPU is always chosen among at least
\* one record, and print_summary raises exactly when some record has CPU
\* samples and none has memory samples
WinnersRaiseWithoutMemory ==
    \A k \in Summaries :
        /\ consumed[k].winners_section => consumed[k].lowest_cpu # <<>>
        /\ consumed[k].raised <=>
              /\ \E j \in 1..Len(results) : HasCpu(results[j])
              /\ \A j \in 1..Len(results) : ~HasMem(results[j])
        /\ consumed[k].raised => (pc = "crashed" /\ Len(consumed) = 1)

====
